---- MODULE Spec2Model ----
(***************************************************************************)
(* Model of KoreaFssFinlifeService (src/services/KoreaFssFinlifeService.ts)*)
(* and of the join step of the example driver.                             *)
(*                                                                         *)
(* A JavaScript object is a record; a property that is missing or whose    *)
(* value is undefined is a key that is not in the record's DOMAIN.         *)
(***************************************************************************)
EXTENDS Integers, Sequences, FiniteSets, TLC

VARIABLES
    env,        \* process.env.FSS_OPEN_API_KEY, or absent (record without "key")
    api,        \* this.api: the defaults of the axios instance
    slots,      \* the invocations of getFinancialCompanies in flight
    ninvoked,   \* number of invocations of getFinancialCompanies so far
    nrequests,  \* number of HTTP requests handed to the transport so far
    last,       \* the invocation that completed last: request, response, outcome
    baseList,   \* driver: baseList of the result
    optionList, \* driver: optionList of the result
    optionsByCompanyCode, \* driver: result of keyBy
    bankList,   \* driver: result of map
    pc          \* driver: position in main's join step

vars == <<env, api, slots, ninvoked, nrequests, last,
          baseList, optionList, optionsByCompanyCode, bankList, pc>>

clientVars == <<env, api, slots, ninvoked, nrequests, last>>
driverVars == <<baseList, optionList, optionsByCompanyCode, bankList, pc>>

----------------------------------------------------------------------------
(* Bounds *)

MaxInFlight == 2
MaxCalls == 3
MaxLen == 2

----------------------------------------------------------------------------
(* Values *)

Has(r, k) == k \in DOMAIN r

FinancialGroupCode == {"020000", "030200", "030300", "050000", "060000"}

SUCCESS == "000"

ApiResponseCode ==
    {"000", "010", "011", "012", "013", "020", "021", "100", "101", "900"}

Keys == {"key-A", "key-B"}

\* the arguments a caller passes to getFinancialCompanies
Args ==
    { [groupCode |-> "020000"],
      [groupCode |-> "020000", pageNo |-> 1],
      [groupCode |-> "030200", pageNo |-> 3],
      [groupCode |-> "030300", financeCode |-> "0010001"],
      [groupCode |-> "050000", financeCode |-> "A", pageNo |-> 0],
      [groupCode |-> "060000", pageNo |-> 1000] }

Company(no, nm) ==
    [dcls_month |-> "202401", fin_co_no |-> no, kor_co_nm |-> nm,
     dcls_chrg_man |-> "m", homp_url |-> "u", cal_tel |-> "t"]

Option(no, area) ==
    [dcls_month |-> "202401", fin_co_no |-> no, area_cd |-> area,
     area_nm |-> area, exis_yn |-> "Y"]

\* result objects of responses the server sends with err_cd "000"
SuccessResults ==
    { [err_cd |-> "000", err_msg |-> "ok", total_count |-> 2,
       max_page_no |-> 1, now_page_no |-> 1,
       baseList |-> <<Company("0010002", "B"), Company("0010001", "A")>>,
       optionList |-> <<Option("0010001", "02"), Option("0010001", "01")>>],
      [err_cd |-> "000", err_message |-> "ok", total_count |-> 7,
       max_page_no |-> 4, now_page_no |-> 3,
       baseList |-> <<Company("0010001", "A")>>,
       optionList |-> << >>] }

\* result objects of responses the server sends with another err_cd:
\* the message under the declared name err_message, under err_msg, or both
ErrorResults ==
    { [err_cd |-> c, err_message |-> "declared"] : c \in {"010", "011", "012"} }
    \cup { [err_cd |-> c, err_msg |-> "wire"] : c \in {"013", "020", "021"} }
    \cup { [err_cd |-> c, err_msg |-> "wire", err_message |-> "declared"] :
              c \in {"100", "101", "900"} }
    \cup { [err_cd |-> "999", err_msg |-> "wire"],
           [err_msg |-> "wire", total_count |-> 0] }

\* response.data of the responses the transport delivers as a success
Bodies ==
    { [json |-> TRUE, result |-> r] : r \in SuccessResults \cup ErrorResults }
    \cup { [json |-> TRUE], [json |-> FALSE] }

\* the errors the transport rejects with
TransportErrors ==
    { [name |-> "AxiosError", code |-> "ENOTFOUND"],
      [name |-> "AxiosError", code |-> "ECONNRESET"],
      [name |-> "AxiosError", code |-> "ERR_BAD_RESPONSE", status |-> 500,
       data |-> [json |-> TRUE,
                 result |-> [err_cd |-> "900", err_msg |-> "wire"]]] }

----------------------------------------------------------------------------
(* The client *)

\* new KoreaFssFinlifeServiceError(code, message, requestParams)
KoreaFssFinlifeServiceError(result, requestParams) ==
    [name |-> "KoreaFssFinlifeServiceError", requestParams |-> requestParams]
    @@ (IF Has(result, "err_cd") THEN [code |-> result.err_cd] ELSE << >>)
    @@ (IF Has(result, "err_msg") THEN [message |-> result.err_msg] ELSE << >>)

\* axios.create({baseURL, params: {auth: process.env.FSS_OPEN_API_KEY}})
AxiosCreate(e) ==
    [baseURL |-> "https://finlife.fss.or.kr/finlifeapi",
     params |-> IF Has(e, "key") THEN [auth |-> e.key] ELSE << >>]

\* variant: the page number is clamped to at least 1
CallParamsClamped(args) ==
    [topFinGrpNo |-> args.groupCode,
     pageNo |-> IF Has(args, "pageNo") /\ args.pageNo >= 1 THEN args.pageNo ELSE 1]
    @@ (IF Has(args, "financeCode") THEN [financeCd |-> args.financeCode]
                                    ELSE << >>)

\* the params object of the call to this.api.get, pageNo defaulting to 1
CallParams(args) ==
    [topFinGrpNo |-> args.groupCode,
     pageNo |-> IF Has(args, "pageNo") THEN args.pageNo ELSE 1]
    @@ (IF Has(args, "financeCode") THEN [financeCd |-> args.financeCode]
                                    ELSE << >>)

\* variant: the params of the call replace the params of the instance
MergeParamsCallOnly(defaults, params) == params

\* axios merges the params of the call over the params of the instance
MergeParams(defaults, params) == params @@ defaults

\* the config of the request this.api.get issues
RequestConfig(args) ==
    [method |-> "get", baseURL |-> api.baseURL, url |-> "/companySearch.json",
     params |-> MergeParams(api.params, CallParams(args))]

\* variant: one shared "current request" holds the config, so a response is
\* paired with the request issued last
ResponseOfLatest(i, body) ==
    LET awaiting == {j \in 1..MaxInFlight : slots[j].pc = "awaiting"}
        latest == CHOOSE j \in awaiting :
                      \A k \in awaiting : slots[k].id <= slots[j].id
    IN [status |-> 200, data |-> body, config |-> slots[latest].config]

\* the response the transport builds for the request of slot i
ResponseOf(i, body) ==
    [status |-> 200, data |-> body, config |-> slots[i].config]

\* variant: only the authentication-key codes are treated as a failure
InterceptorAuthOnly(response) ==
    IF /\ Has(response.data, "result")
       /\ Has(response.data.result, "err_cd")
       /\ response.data.result.err_cd \notin {"010", "011", "012", "013"}
    THEN [type |-> "fulfilled", value |-> response]
    ELSE IF ~Has(response.data, "result")
         THEN [type |-> "rejected", error |-> [name |-> "TypeError"]]
         ELSE [type |-> "rejected",
               error |-> KoreaFssFinlifeServiceError(response.data.result,
                                                     response.config.params)]

\* the fulfilled handler of the response interceptor
Interceptor(response) ==
    IF /\ Has(response.data, "result")
       /\ Has(response.data.result, "err_cd")
       /\ response.data.result.err_cd = SUCCESS
    THEN [type |-> "fulfilled", value |-> response]
    ELSE IF ~Has(response.data, "result")
         THEN [type |-> "rejected", error |-> [name |-> "TypeError"]]
         ELSE [type |-> "rejected",
               error |-> KoreaFssFinlifeServiceError(response.data.result,
                                                     response.config.params)]

\* variant: a rejected handler that validates the body of a non-2xx response
InterceptorRejectedWrap(error) ==
    IF Has(error, "data") /\ Has(error.data, "result")
    THEN [type |-> "rejected",
          error |-> KoreaFssFinlifeServiceError(error.data.result, << >>)]
    ELSE [type |-> "rejected", error |-> error]

\* the interceptor registers no rejected handler: a rejection passes through
InterceptorRejected(error) == [type |-> "rejected", error |-> error]

\* variant: max_page_no is recomputed from total_count, ten records a page
ThenResultRecomputed(settled) ==
    IF settled.type = "fulfilled"
    THEN [type |-> "fulfilled",
          value |-> [settled.value.data.result EXCEPT
                        !.max_page_no =
                            (settled.value.data.result.total_count + 9) \div 10]]
    ELSE settled

\* .then((res) => res.data.result)
ThenResult(settled) ==
    IF settled.type = "fulfilled"
    THEN [type |-> "fulfilled", value |-> settled.value.data.result]
    ELSE settled

Idle == [pc |-> "idle"]

Init ==
    /\ env \in {[key |-> k] : k \in Keys}
    /\ api = AxiosCreate(env)
    /\ slots = [i \in 1..MaxInFlight |-> Idle]
    /\ ninvoked = 0
    /\ nrequests = 0
    /\ last = [pc |-> "none"]
    /\ baseList = << >>
    /\ optionList = << >>
    /\ optionsByCompanyCode = << >>
    /\ bankList = << >>
    /\ pc = "client"

\* the process environment changes after the client was constructed
SetEnv(e) ==
    /\ e # env
    /\ env' = e
    /\ UNCHANGED <<api, slots, ninvoked, nrequests, last>>
    /\ UNCHANGED driverVars

\* getFinancialCompanies(args) up to its await: one request is issued
Invoke(i, args) ==
    /\ slots[i].pc = "idle"
    /\ ninvoked < MaxCalls
    /\ ninvoked' = ninvoked + 1
    /\ nrequests' = nrequests + 1
    /\ slots' = [slots EXCEPT ![i] = [pc |-> "awaiting", id |-> ninvoked + 1,
                                      args |-> args,
                                      config |-> RequestConfig(args)]]
    /\ UNCHANGED <<env, api, last>>
    /\ UNCHANGED driverVars

\* the transport delivers a 2xx response to the request of slot i
DeliverResponse(i, body) ==
    /\ slots[i].pc = "awaiting"
    /\ LET response == ResponseOf(i, body)
       IN last' = [pc |-> "done", id |-> slots[i].id, args |-> slots[i].args,
                   config |-> slots[i].config, response |-> response,
                   outcome |-> ThenResult(Interceptor(response))]
    /\ slots' = [slots EXCEPT ![i] = Idle]
    /\ UNCHANGED <<env, api, ninvoked, nrequests>>
    /\ UNCHANGED driverVars

\* variant: a rejected request is sent again
DeliverFailureRetry(i, error) ==
    /\ slots[i].pc = "awaiting"
    /\ nrequests <= MaxCalls
    /\ nrequests' = nrequests + 1
    /\ UNCHANGED <<env, api, slots, ninvoked, last>>
    /\ UNCHANGED driverVars

\* the transport rejects the request of slot i
DeliverFailure(i, error) ==
    /\ slots[i].pc = "awaiting"
    /\ last' = [pc |-> "done", id |-> slots[i].id, args |-> slots[i].args,
                config |-> slots[i].config, failure |-> error,
                outcome |-> ThenResult(InterceptorRejected(error))]
    /\ slots' = [slots EXCEPT ![i] = Idle]
    /\ UNCHANGED <<env, api, ninvoked, nrequests>>
    /\ UNCHANGED driverVars

Next ==
    \/ \E e \in {[key |-> k] : k \in Keys} \cup {<< >>} : SetEnv(e)
    \/ \E i \in 1..MaxInFlight, args \in Args : Invoke(i, args)
    \/ \E i \in 1..MaxInFlight, body \in Bodies : DeliverResponse(i, body)
    \/ \E i \in 1..MaxInFlight, error \in TransportErrors : DeliverFailure(i, error)

Spec == Init /\ [][Next]_vars

----------------------------------------------------------------------------
(* The join step of the example driver *)

JoinCodes == {"0010001", "0010002", "0010003"}

BaseRecords == {Company(no, "n") : no \in JoinCodes}

OptionRecords == {Option(no, area) : no \in JoinCodes, area \in {"01", "02"}}

SeqsUpTo(S, n) == UNION {[1..m -> S] : m \in 0..n}

\* variant: a key that is already present is kept (first write wins)
RECURSIVE KeyByFirst(_, _)
KeyByFirst(list, n) ==
    IF n = 0 THEN << >>
    ELSE KeyByFirst(list, n - 1) @@ (list[n].fin_co_no :> list[n])

\* lodash keyBy over the first n elements: result[key] = value, in order
RECURSIVE KeyBy(_, _)
KeyBy(list, n) ==
    IF n = 0 THEN << >>
    ELSE (list[n].fin_co_no :> list[n]) @@ KeyBy(list, n - 1)

\* ({...bank, options: optionsByCompanyCode[bank.fin_co_no]})
Merge(bank, byCode) ==
    IF Has(byCode, bank.fin_co_no)
    THEN [options |-> byCode[bank.fin_co_no]] @@ bank
    ELSE [k \in DOMAIN bank \ {"options"} |-> bank[k]]

InitJoin ==
    /\ env \in {[key |-> k] : k \in Keys}
    /\ api = AxiosCreate(env)
    /\ slots = [i \in 1..MaxInFlight |-> Idle]
    /\ ninvoked = 0
    /\ nrequests = 0
    /\ last = [pc |-> "none"]
    /\ baseList \in SeqsUpTo(BaseRecords, MaxLen)
    /\ optionList \in SeqsUpTo(OptionRecords, MaxLen)
    /\ optionsByCompanyCode = << >>
    /\ bankList = << >>
    /\ pc = "keyBy"

\* const optionsByCompanyCode = keyBy(optionList, "fin_co_no")
KeyByStep ==
    /\ pc = "keyBy"
    /\ optionsByCompanyCode' = KeyBy(optionList, Len(optionList))
    /\ pc' = "map"
    /\ UNCHANGED <<baseList, optionList, bankList>>
    /\ UNCHANGED clientVars

\* const bankList = baseList.map(...)
MapStep ==
    /\ pc = "map"
    /\ bankList' = [i \in 1..Len(baseList) |->
                       Merge(baseList[i], optionsByCompanyCode)]
    /\ pc' = "done"
    /\ UNCHANGED <<baseList, optionList, optionsByCompanyCode>>
    /\ UNCHANGED clientVars

NextJoin == KeyByStep \/ MapStep

SpecJoin == InitJoin /\ [][NextJoin]_vars

----------------------------------------------------------------------------
(* Properties *)

Done == last.pc = "done"

\* the invocation that completed last got a 2xx response with a result object
\* whose err_cd is present and is not "000"
GotErrorEnvelope ==
    /\ Done
    /\ Has(last, "response")
    /\ Has(last.response.data, "result")
    /\ Has(last.response.data.result, "err_cd")
    /\ last.response.data.result.err_cd # SUCCESS

ThrewServiceError ==
    /\ Done
    /\ last.outcome.type = "rejected"
    /\ last.outcome.error.name = "KoreaFssFinlifeServiceError"

\* C1: a 2xx response whose err_cd is not "000" makes getFinancialCompanies
\* throw (it returns no value) and the error's code is that err_cd.
C1_ErrorCodeThrown ==
    GotErrorEnvelope =>
        /\ ThrewServiceError
        /\ Has(last.outcome.error, "code")
        /\ last.outcome.error.code = last.response.data.result.err_cd

C1_Witness ==
    /\ GotErrorEnvelope
    /\ last.response.data.result.err_cd = "010"
    /\ ThrewServiceError
    /\ last.outcome.error.code = "010"

\* C2: when err_cd is not "000" the thrown error's message is the envelope's
\* err_message.
C2_MessageIsErrMessage ==
    (GotErrorEnvelope /\ Has(last.response.data.result, "err_message")) =>
        /\ ThrewServiceError
        /\ Has(last.outcome.error, "message")
        /\ last.outcome.error.message = last.response.data.result.err_message

\* the configs of all requests issued that the state still holds
IssuedConfigs ==
    {slots[i].config : i \in {j \in 1..MaxInFlight : slots[j].pc = "awaiting"}}
    \cup (IF Done THEN {last.config} ELSE {})

\* C3: every request carries auth, and its value is the key read from the
\* environment at construction, whatever the call's parameters, however many
\* calls were made and whatever the environment holds now.
C3_AuthOnEveryRequest ==
    \A c \in IssuedConfigs :
        /\ Has(c.params, "auth")
        /\ c.params.auth = api.params.auth

C3_Witness ==
    /\ ninvoked = MaxCalls
    /\ ~Has(env, "key")
    /\ \E i \in 1..MaxInFlight :
          /\ slots[i].pc = "awaiting"
          /\ slots[i].id = MaxCalls
          /\ Has(slots[i].args, "financeCode")
          /\ slots[i].config.params.auth = api.params.auth

\* the invocations (arguments and request config) the state still holds
Issued ==
    {[args |-> slots[i].args, config |-> slots[i].config] :
        i \in {j \in 1..MaxInFlight : slots[j].pc = "awaiting"}}
    \cup (IF Done THEN {[args |-> last.args, config |-> last.config]} ELSE {})

\* C4: pageNo is 1 when the caller gives none and the caller's value otherwise,
\* topFinGrpNo is the group code, financeCd is the filter or is absent.
C4_ParamsPassedThrough ==
    \A r \in Issued :
        /\ ~Has(r.args, "pageNo") => r.config.params.pageNo = 1
        /\ Has(r.args, "pageNo") => r.config.params.pageNo = r.args.pageNo
        /\ r.config.params.topFinGrpNo = r.args.groupCode
        /\ Has(r.args, "financeCode") <=> Has(r.config.params, "financeCd")
        /\ Has(r.args, "financeCode") =>
              r.config.params.financeCd = r.args.financeCode

C4_Witness ==
    /\ \E r \in Issued : ~Has(r.args, "pageNo") /\ r.config.params.pageNo = 1
                         /\ Has(r.config.params, "financeCd")
    /\ \E r \in Issued : Has(r.args, "pageNo") /\ r.args.pageNo = 0
                         /\ r.config.params.pageNo = 0
    /\ \E r \in Issued : Has(r.args, "pageNo") /\ r.args.pageNo = 1000
                         /\ r.config.params.pageNo = 1000
                         /\ ~Has(r.config.params, "financeCd")

GotSuccessEnvelope ==
    /\ Done
    /\ Has(last, "response")
    /\ Has(last.response.data, "result")
    /\ Has(last.response.data.result, "err_cd")
    /\ last.response.data.result.err_cd = SUCCESS

\* C5: on err_cd "000" the returned value has the envelope's total_count,
\* max_page_no and now_page_no and the server's two lists, element for element.
C5_ResultUnmodified ==
    GotSuccessEnvelope =>
        /\ last.outcome.type = "fulfilled"
        /\ LET v == last.outcome.value
               r == last.response.data.result
           IN /\ v.total_count = r.total_count
              /\ v.max_page_no = r.max_page_no
              /\ v.now_page_no = r.now_page_no
              /\ Len(v.baseList) = Len(r.baseList)
              /\ \A k \in 1..Len(r.baseList) : v.baseList[k] = r.baseList[k]
              /\ Len(v.optionList) = Len(r.optionList)
              /\ \A k \in 1..Len(r.optionList) : v.optionList[k] = r.optionList[k]

C5_Witness ==
    /\ GotSuccessEnvelope
    /\ last.outcome.type = "fulfilled"
    /\ last.outcome.value.max_page_no = 4
    /\ last.outcome.value.total_count = 7
    /\ Len(last.outcome.value.baseList) = 1

\* C6: every invocation issues exactly one request; a completion of any kind
\* issues none and ends the invocation; a later invocation issues a fresh one.
C6_OneRequestPerInvocation ==
    [][ /\ nrequests' = ninvoked'
        /\ ninvoked' # ninvoked => nrequests' = nrequests + 1
        /\ last' # last =>
              /\ nrequests' = nrequests
              /\ \E i \in 1..MaxInFlight :
                    /\ slots[i].pc = "awaiting"
                    /\ slots[i].id = last'.id
                    /\ slots'[i].pc = "idle"
      ]_vars

C6_Witness ==
    /\ Done
    /\ last.outcome.type = "rejected"
    /\ Has(last, "failure")
    /\ nrequests = 2
    /\ \E i \in 1..MaxInFlight :
          /\ slots[i].pc = "awaiting"
          /\ slots[i].args = last.args
          /\ slots[i].id = 2

\* C7: with several invocations in flight and responses in any order, an
\* invocation's value is its own response's result and its upstream-rejection
\* error carries the query parameters of its own request.
C7_OwnRequestOwnResponse ==
    Done =>
        /\ (Has(last, "response") /\ last.outcome.type = "fulfilled") =>
              last.outcome.value = last.response.data.result
        /\ ThrewServiceError =>
              LET p == last.outcome.error.requestParams
              IN /\ p = last.config.params
                 /\ p.topFinGrpNo = last.args.groupCode
                 /\ p.pageNo = (IF Has(last.args, "pageNo")
                                THEN last.args.pageNo ELSE 1)
                 /\ Has(p, "financeCd") <=> Has(last.args, "financeCode")
                 /\ Has(p, "financeCd") => p.financeCd = last.args.financeCode
                 /\ Has(p, "auth") /\ p.auth = api.params.auth

C7_Witness ==
    /\ ThrewServiceError
    /\ last.outcome.error.requestParams = last.config.params
    /\ \E i \in 1..MaxInFlight :
          /\ slots[i].pc = "awaiting"
          /\ slots[i].id < last.id
          /\ slots[i].config.params # last.config.params

\* C8: every failure raised while validating a 2xx response is a
\* KoreaFssFinlifeServiceError whose code is one of the ten status codes.
C8_ValidationFailureTyped ==
    (Done /\ Has(last, "response") /\ last.outcome.type = "rejected") =>
        /\ last.outcome.error.name = "KoreaFssFinlifeServiceError"
        /\ Has(last.outcome.error, "code")
        /\ last.outcome.error.code \in ApiResponseCode

\* C9: a transport failure is the failure of getFinancialCompanies, unchanged:
\* no KoreaFssFinlifeServiceError is made from it and no value is returned.
C9_TransportErrorUnchanged ==
    (Done /\ Has(last, "failure")) =>
        /\ last.outcome.type = "rejected"
        /\ last.outcome.error = last.failure
        /\ last.outcome.error.name # "KoreaFssFinlifeServiceError"

C9_Witness ==
    /\ Done
    /\ Has(last, "failure")
    /\ Has(last.failure, "data")
    /\ last.failure.data.result.err_cd = "900"
    /\ last.outcome.type = "rejected"
    /\ last.outcome.error = last.failure

Matches(i) ==
    {j \in 1..Len(optionList) : optionList[j].fin_co_no = baseList[i].fin_co_no}

Greatest(S) == CHOOSE m \in S : \A n \in S : n <= m

\* C10: the join yields one record per base record, in order, with the base
\* record's fields and as options the last option record of the same
\* fin_co_no, or no options when there is none.
C10_JoinByCompanyCode ==
    pc = "done" =>
        /\ Len(bankList) = Len(baseList)
        /\ \A i \in 1..Len(baseList) :
              /\ DOMAIN bankList[i] \subseteq DOMAIN baseList[i] \cup {"options"}
              /\ \A k \in DOMAIN baseList[i] : bankList[i][k] = baseList[i][k]
              /\ IF Matches(i) = {}
                 THEN ~Has(bankList[i], "options")
                 ELSE /\ Has(bankList[i], "options")
                      /\ bankList[i].options = optionList[Greatest(Matches(i))]

C10_Witness ==
    /\ pc = "done"
    /\ Len(baseList) = 2 /\ Len(optionList) = 2 /\ Len(bankList) = 2
    /\ optionList[1].fin_co_no = optionList[2].fin_co_no
    /\ optionList[1] # optionList[2]
    /\ baseList[1].fin_co_no = optionList[1].fin_co_no
    /\ baseList[2].fin_co_no # optionList[1].fin_co_no
    /\ bankList[1].options = optionList[2]
    /\ ~Has(bankList[2], "options")


====
